---- MODULE Spec2Model ----
(***************************************************************************)
(* Route Options API (src/main.py): POST /route-options.                   *)
(*                                                                         *)
(* One request is followed from its arrival to its response:               *)
(*   idle -> received -> validated -> fetched -> done                      *)
(* Requests share no state, so one request is the whole behaviour.         *)
(* Validation is pydantic's (RouteOptionsRequest), the fetch is            *)
(* osrm_get_routes, and the rest of route_options (empty check, loop over  *)
(* routes[:k], sort, response) is one step.                                *)
(*                                                                         *)
(* Numbers.  Python floats are IEEE-754 doubles.  The model holds the      *)
(* doubles its inputs produce in two exact forms:                          *)
(*   [n |-> i, sub |-> FALSE]  the value i / Den  (Den = 3 * 10^7 makes    *)
(*                             metres/1000, seconds/60 and km*rate/100     *)
(*                             whole numbers of units; these values are    *)
(*                             far from the limits of double precision);   *)
(*   [n |-> i, sub |-> TRUE]   the subnormal double i * 2^-1074, where a   *)
(*                             double IS fixed point and every operation   *)
(*                             rounds to a whole number of quanta, ties to *)
(*                             even.                                       *)
(* Zero is always [n |-> 0, sub |-> FALSE].  Only finite, non-negative     *)
(* upstream numbers are modelled.                                          *)
(***************************************************************************)
EXTENDS Integers, Sequences, FiniteSets, TLC

VARIABLES pc, req, data, resp, calls

vars == <<pc, req, data, resp, calls>>

\* Longest upstream "routes" array the fetch may return.
MaxRoutes == 3

\* Units per 1.0 of a normal-range float.
Den == 3 * 10000000

NoData == [kind |-> "none"]

NoResponse == [status |-> 0]

-----------------------------------------------------------------------------
(* Floats *)

F(i) == [n |-> i, sub |-> FALSE]

Norm(x) == IF x.n = 0 THEN F(0) ELSE x

\* a / b rounded to the nearest integer, ties to even (a >= 0, b > 0).
RoundHalfEven(a, b) ==
  LET q == a \div b
      r == a % b
  IN  IF 2 * r < b THEN q
      ELSE IF 2 * r > b THEN q + 1
      ELSE IF q % 2 = 0 THEN q ELSE q + 1

\* x < y on the modelled doubles (non-negative).
Lt(x, y) ==
  IF x.sub = y.sub THEN x.n < y.n
  ELSE IF x.sub THEN y.n > 0
  ELSE x.n = 0

Le(x, y) == ~Lt(y, x)

\* rt["distance"] / 1000.0 ; rt["distance"] is held in decimetres.
ToKm(distance) == F(distance * (Den \div 10000))

\* rt["duration"] / 60.0 ; rt["duration"] is held in seconds.
ToMin(duration) == F(duration * (Den \div 60))

\* x * rate.  rate is [m, sub]: m / 10 l/100km, or the subnormal m * 2^-1074.
MulRate(x, rate) ==
  IF rate.sub
    THEN Norm([n |-> RoundHalfEven(x.n * rate.m, Den), sub |-> TRUE])
    ELSE F(RoundHalfEven(x.n * rate.m, 10))

\* x / 100.0
Div100(x) == Norm([n |-> RoundHalfEven(x.n, 100), sub |-> x.sub])

\* x * p for the int p (exact: p is small)
MulInt(x, p) == Norm([n |-> x.n * p, sub |-> x.sub])

Pow10(nd) == IF nd = 0 THEN 1 ELSE IF nd = 1 THEN 10 ELSE 1000

\* Python's round(x, ndigits): nearest multiple of 10^-ndigits, ties to even.
Round(x, ndigits) ==
  IF x.sub THEN F(0)
  ELSE LET step == Den \div Pow10(ndigits)
       IN  F(RoundHalfEven(x.n, step) * step)

-----------------------------------------------------------------------------
(* Helpers *)

estimate_fuel(distance_km, fuel_l_per_100km) ==
  Div100(MulRate(distance_km, fuel_l_per_100km))

\* Variant: the LOW_FUEL branch returns the duration.
score_route_swapped(pref, distance_km, duration_min, fuel_liters, fuel_cost) ==
  IF pref = "FASTEST" THEN duration_min
  ELSE IF pref = "SHORT_DISTANCE" THEN distance_km
  ELSE IF pref = "LOW_FUEL" THEN duration_min
  ELSE IF pref = "CHEAPEST" THEN fuel_cost
  ELSE duration_min

score_route(pref, distance_km, duration_min, fuel_liters, fuel_cost) ==
  IF pref = "FASTEST" THEN duration_min
  ELSE IF pref = "SHORT_DISTANCE" THEN distance_km
  ELSE IF pref = "LOW_FUEL" THEN fuel_liters
  ELSE IF pref = "CHEAPEST" THEN fuel_cost
  ELSE duration_min

-----------------------------------------------------------------------------
(* Models: the constraints pydantic enforces before the handler runs *)

Preference == {"FASTEST", "LOW_FUEL", "CHEAPEST", "SHORT_DISTANCE"}

\* Variant: the upper latitude bound is not enforced.
LatLngValidNoUpper(p) ==
  /\ p.lat >= -90
  /\ p.lng >= -180 /\ p.lng <= 180

LatLngValid(p) ==
  /\ p.lat >= -90 /\ p.lat <= 90
  /\ p.lng >= -180 /\ p.lng <= 180

\* confloat(gt=0, le=50); a subnormal rate is far below 50.
VehicleConfigValid(v) ==
  /\ v.fuel_l_per_100km.m > 0
  /\ (v.fuel_l_per_100km.sub \/ v.fuel_l_per_100km.m <= 500)

RouteOptionsRequestValid(r) ==
  /\ LatLngValid(r.origin)
  /\ LatLngValid(r.destination)
  /\ r.preference \in Preference
  /\ r.k >= 1 /\ r.k <= 5
  /\ r.fuel_price_per_liter >= 0 /\ r.fuel_price_per_liter <= 200000
  /\ VehicleConfigValid(r.vehicle)

-----------------------------------------------------------------------------
(* Inputs *)

Coordinates ==
  { [lat |-> 2,   lng |-> -77],  [lat |-> 90, lng |-> 180],
    [lat |-> -90, lng |-> -180],
    [lat |-> -91, lng |-> 0],    [lat |-> 91, lng |-> 0],
    [lat |-> 0,   lng |-> -181], [lat |-> 0,  lng |-> 181] }

PreferenceInputs == Preference \cup {"ECO"}

KInputs == 0 .. 6

PriceInputs == {-1, 0, 15000, 200001}

\* 0.0, 7.5 (the default), 50.1 and the subnormal 1e-322 (20 * 2^-1074).
RateInputs ==
  { [m |-> 0,   sub |-> FALSE], [m |-> 75, sub |-> FALSE],
    [m |-> 501, sub |-> FALSE], [m |-> 20, sub |-> TRUE] }

Requests ==
  [ origin : Coordinates, destination : Coordinates,
    preference : PreferenceInputs, k : KInputs,
    fuel_price_per_liter : PriceInputs,
    vehicle : [fuel_l_per_100km : RateInputs] ]

NoRequest ==
  [ origin |-> [lat |-> 0, lng |-> 0], destination |-> [lat |-> 0, lng |-> 0],
    preference |-> "FASTEST", k |-> 3, fuel_price_per_liter |-> 15000,
    vehicle |-> [fuel_l_per_100km |-> [m |-> 75, sub |-> FALSE]] ]

RouteKeys == {"distance", "duration", "geometry"}

\* Upstream route objects: distance in decimetres, duration in seconds.
\* 1.2 m / 600 s, 1.1 m / 602 s, 3.0 m / 540 s, and objects lacking a key.
RouteSamples ==
  { [keys |-> RouteKeys, distance |-> 12, duration |-> 600],
    [keys |-> RouteKeys, distance |-> 11, duration |-> 602],
    [keys |-> RouteKeys, distance |-> 30, duration |-> 540],
    [keys |-> RouteKeys \ {"distance"}, distance |-> 0, duration |-> 600],
    [keys |-> RouteKeys \ {"duration"}, distance |-> 12, duration |-> 0],
    [keys |-> RouteKeys \ {"geometry"}, distance |-> 12, duration |-> 600] }

\* The i-th upstream route carries the geometry <<"g", i>>.
WithGeometry(s) ==
  [i \in 1 .. Len(s) |->
     [keys |-> s[i].keys, distance |-> s[i].distance,
      duration |-> s[i].duration, geometry |-> <<"g", i>>]]

RouteLists ==
  { WithGeometry(s) : s \in UNION { [1 .. n -> RouteSamples] : n \in 0 .. MaxRoutes } }

\* What requests.get / raise_for_status / r.json() can produce.  A body that
\* is not JSON raises requests.JSONDecodeError, a RequestException; a JSON
\* array at top level and an object without "routes" are returned as data.
UpstreamOutcomes ==
  { [kind |-> k] : k \in {"connection_error", "timeout", "http_error",
                          "not_json", "not_object", "no_routes_key"} }
  \cup { [kind |-> "routes", routes |-> s] : s \in RouteLists }

-----------------------------------------------------------------------------
(* route_options *)

HTTPException(status_code, detail) == [status |-> status_code, detail |-> detail]

\* data.get("routes", [])
GetRoutes(d) == IF d.kind = "routes" THEN d.routes ELSE << >>

\* Variant: the empty check is missing.
NeverNoRoutes(routes) == FALSE

\* not routes
NoRoutes(routes) == routes = << >>

\* Variant: no truncation.
TakeAll(routes, k) == routes

\* Variant: routes[-k :], the last k instead of the first k.
TakeLast(routes, k) ==
  SubSeq(routes, IF k < Len(routes) THEN Len(routes) - k + 1 ELSE 1, Len(routes))

\* routes[: k]
Take(routes, k) == SubSeq(routes, 1, IF k < Len(routes) THEN k ELSE Len(routes))

\* The loop body reads rt["distance"], rt["duration"], rt["geometry"].
KeyError(rt) == rt.keys # RouteKeys

\* Variant: the score is computed from the rounded values.
BuildOptionRoundedScore(idx, rt, r) ==
  LET dist_km   == Round(ToKm(rt.distance), 3)
      dur_min   == Round(ToMin(rt.duration), 1)
      fuel_l    == Round(estimate_fuel(ToKm(rt.distance), r.vehicle.fuel_l_per_100km), 3)
      fuel_cost == Round(MulInt(estimate_fuel(ToKm(rt.distance), r.vehicle.fuel_l_per_100km),
                                r.fuel_price_per_liter), 0)
      sc        == score_route(r.preference, dist_km, dur_min, fuel_l, fuel_cost)
  IN  [ id            |-> <<"r", idx>>,
        distance_km   |-> dist_km,
        duration_min  |-> dur_min,
        fuel_liters   |-> fuel_l,
        fuel_cost_cop |-> fuel_cost,
        score         |-> sc,
        geojson       |-> rt.geometry ]

\* One iteration of the loop: the RouteOption built from rt at index idx.
BuildOption(idx, rt, r) ==
  LET dist_km   == ToKm(rt.distance)
      dur_min   == ToMin(rt.duration)
      fuel_l    == estimate_fuel(dist_km, r.vehicle.fuel_l_per_100km)
      fuel_cost == MulInt(fuel_l, r.fuel_price_per_liter)
      sc        == score_route(r.preference, dist_km, dur_min, fuel_l, fuel_cost)
  IN  [ id            |-> <<"r", idx>>,
        distance_km   |-> Round(dist_km, 3),
        duration_min  |-> Round(dur_min, 1),
        fuel_liters   |-> Round(fuel_l, 3),
        fuel_cost_cop |-> Round(fuel_cost, 0),
        score         |-> sc,
        geojson       |-> rt.geometry ]

\* Variant: x placed before the elements of equal score (not stable).
InsertBeforeEqual(s, x) ==
  LET p == Cardinality({ i \in 1 .. Len(s) : Lt(s[i].score, x.score) })
  IN  SubSeq(s, 1, p) \o << x >> \o SubSeq(s, p + 1, Len(s))

\* x placed after every element whose score is not greater (stable).
Insert(s, x) ==
  LET p == Cardinality({ i \in 1 .. Len(s) : Le(s[i].score, x.score) })
  IN  SubSeq(s, 1, p) \o << x >> \o SubSeq(s, p + 1, Len(s))

RECURSIVE SortPrefix(_, _)
SortPrefix(s, n) == IF n = 0 THEN << >> ELSE Insert(SortPrefix(s, n - 1), s[n])

\* Variant: the sort is missing.
NoSort(s) == s

\* out.sort(key=lambda x: x.score): stable, ascending.
SortByScore(s) == SortPrefix(s, Len(s))

\* out after the loop over enumerate(taken, start=1).
BuildOptions(taken, r) ==
  [idx \in 1 .. Len(taken) |-> BuildOption(idx, taken[idx], r)]

RouteOptionsResponse(r, out) ==
  [ status |-> 200,
    body   |-> [ preference |-> r.preference,
                 requested  |-> r.k,
                 returned   |-> Len(out),
                 routes     |-> out ] ]

\* The handler body after the fetch has returned d.
Handle(r, d) ==
  IF d.kind = "not_object" THEN HTTPException(500, "AttributeError")
  ELSE LET routes == GetRoutes(d)
           taken  == Take(routes, r.k)
       IN  IF NoRoutes(routes) THEN HTTPException(404, "No se encontraron rutas")
           ELSE IF \E i \in 1 .. Len(taken) : KeyError(taken[i])
                  THEN HTTPException(500, "KeyError")
           ELSE RouteOptionsResponse(r, SortByScore(BuildOptions(taken, r)))

-----------------------------------------------------------------------------
(* Steps *)

Init ==
  /\ pc = "idle"
  /\ req = NoRequest
  /\ data = NoData
  /\ resp = NoResponse
  /\ calls = 0

\* A client posts a body to /route-options.
Receive ==
  /\ pc = "idle"
  /\ \E r \in Requests : req' = r
  /\ pc' = "received"
  /\ data' = NoData
  /\ resp' = NoResponse
  /\ calls' = 0

\* The framework validates the body against RouteOptionsRequest.
Validate ==
  /\ pc = "received"
  /\ IF RouteOptionsRequestValid(req)
       THEN pc' = "validated" /\ resp' = resp
       ELSE pc' = "done" /\ resp' = HTTPException(422, "validation")
  /\ UNCHANGED <<req, data, calls>>

\* Variant: a failed attempt is retried once before the 502.
osrm_get_routes_retry ==
  /\ pc = "validated"
  /\ \E o \in UpstreamOutcomes :
       IF o.kind \in {"connection_error", "timeout", "http_error", "not_json"}
         THEN /\ pc' = "done" /\ data' = data /\ calls' = calls + 2
              /\ resp' = HTTPException(502, "OSRM error")
       ELSE /\ pc' = "fetched" /\ data' = o /\ resp' = resp /\ calls' = calls + 1
  /\ UNCHANGED req

\* osrm_get_routes: one requests.get, exceptions mapped to 502.
osrm_get_routes ==
  /\ pc = "validated"
  /\ calls' = calls + 1
  /\ \E o \in UpstreamOutcomes :
       IF o.kind = "connection_error"
         THEN /\ pc' = "done" /\ data' = data
              /\ resp' = HTTPException(502, "No hay conexion con OSRM")
       ELSE IF o.kind \in {"timeout", "http_error", "not_json"}
         THEN /\ pc' = "done" /\ data' = data
              /\ resp' = HTTPException(502, "OSRM error")
       ELSE /\ pc' = "fetched" /\ data' = o /\ resp' = resp
  /\ UNCHANGED req

\* route_options from data.get("routes", []) to the return.
route_options ==
  /\ pc = "fetched"
  /\ resp' = Handle(req, data)
  /\ pc' = "done"
  /\ UNCHANGED <<req, data, calls>>

Next == Receive \/ Validate \/ osrm_get_routes \/ route_options

Spec == Init /\ [][Next]_vars

-----------------------------------------------------------------------------
(* Properties *)

Ok == pc = "done" /\ resp.status = 200

Min(a, b) == IF a < b THEN a ELSE b

\* The index i of the identifier "r<i>".
IdIndex(o) == o.id[2]

Ids(routes) == [i \in 1 .. Len(routes) |-> routes[i].id]

\* The request as received, with another preference and price.
ReqWith(pref, price) ==
  [req EXCEPT !.preference = pref, !.fuel_price_per_liter = price]

\* The valid positive prices of the inputs.
PositivePrices == { p \in PriceInputs : p > 0 /\ p <= 200000 }

\* C1: in every successful response the routes are in ascending order of
\* score: routes[i].score <= routes[i+1].score for all adjacent positions.
C1_SortedByScore ==
  Ok => \A i \in 1 .. Len(resp.body.routes) - 1 :
          Le(resp.body.routes[i].score, resp.body.routes[i + 1].score)

\* A response whose first route is not the first upstream route and whose
\* scores strictly increase along it: the sort has reordered.
C1_Witness ==
  /\ Ok
  /\ Len(resp.body.routes) >= 3
  /\ IdIndex(resp.body.routes[1]) # 1
  /\ \A i \in 1 .. Len(resp.body.routes) - 1 :
       Lt(resp.body.routes[i].score, resp.body.routes[i + 1].score)

\* C2: in every successful response returned = min(requested, number of
\* upstream routes), requested = k, Len(routes) = returned and the
\* preference is the request's.
C2_ReturnedIsMin ==
  Ok => /\ resp.body.returned = Min(resp.body.requested, Len(data.routes))
        /\ resp.body.requested = req.k
        /\ Len(resp.body.routes) = resp.body.returned
        /\ resp.body.preference = req.preference

\* A response cut to k = 2 of 3 upstream routes.
C2_Witness ==
  /\ Ok
  /\ req.k = 2
  /\ Len(data.routes) = 3
  /\ resp.body.returned = 2

\* The documented ranges of the request fields.
Documented(r) ==
  /\ r.origin.lat \in -90 .. 90 /\ r.origin.lng \in -180 .. 180
  /\ r.destination.lat \in -90 .. 90 /\ r.destination.lng \in -180 .. 180
  /\ r.k \in 1 .. 5
  /\ r.fuel_price_per_liter \in 0 .. 200000
  /\ r.vehicle.fuel_l_per_100km.m > 0
  /\ (~r.vehicle.fuel_l_per_100km.sub => r.vehicle.fuel_l_per_100km.m <= 500)
  /\ r.preference \in {"FASTEST", "LOW_FUEL", "CHEAPEST", "SHORT_DISTANCE"}

\* C3: a request with any field outside its documented range ends in the
\* client error 422, and no upstream request is issued while handling it.
C3_InvalidRejectedWithoutFetch ==
  (pc # "idle" /\ ~Documented(req)) =>
     /\ calls = 0
     /\ pc \in {"received", "done"}
     /\ data = NoData
     /\ (pc = "done" => resp.status = 422)

\* A request whose only fault is a latitude of 91 has been rejected.
C3_Witness ==
  /\ pc = "done"
  /\ resp.status = 422
  /\ req.origin.lat = 91
  /\ Documented([req EXCEPT !.origin = [lat |-> 90, lng |-> 180]])

\* C4: a fetch that succeeds with zero routes ends in 404, and every
\* successful response has returned >= 1 and a non-empty routes list.
C4_NoRoutesIs404 ==
  /\ (pc = "done" /\ data.kind = "routes" /\ Len(data.routes) = 0) => resp.status = 404
  /\ (pc = "done" /\ data.kind = "no_routes_key") => resp.status = 404
  /\ Ok => (resp.body.returned >= 1 /\ Len(resp.body.routes) >= 1)

\* The upstream answered with an empty "routes" array and the request
\* ended in 404.
C4_Witness ==
  /\ pc = "done"
  /\ data.kind = "routes"
  /\ Len(data.routes) = 0
  /\ resp.status = 404

\* C5: for a valid request every upstream outcome other than a well-formed
\* success ends in 502 (also a route lacking distance, duration or geometry
\* and a top level that is not an object), so a valid request ends in 200,
\* 502 or 404 only.
C5_MalformedUpstreamIs502 ==
  (pc = "done" /\ Documented(req)) =>
     /\ resp.status \in {200, 502, 404}
     /\ (data.kind = "not_object" => resp.status = 502)
     /\ ((data.kind = "routes" /\
          \E i \in 1 .. Min(req.k, Len(data.routes)) : data.routes[i].keys # RouteKeys)
           => resp.status = 502)

\* C6: one valid request issues exactly one upstream request, after
\* validation and before any scoring; a failed attempt is not repeated and
\* nothing is fetched once the response or error exists.
C6_ExactlyOneFetch ==
  /\ pc \in {"idle", "received", "validated"} => (calls = 0 /\ resp = NoResponse)
  /\ pc = "fetched" => (calls = 1 /\ resp = NoResponse)
  /\ pc = "done" => calls = (IF resp.status = 422 THEN 0 ELSE 1)
  /\ (pc = "done" /\ Documented(req)) => calls = 1

\* The single attempt of a valid request failed and the request ended
\* in 502.
C6_Witness ==
  /\ pc = "done"
  /\ Documented(req)
  /\ resp.status = 502
  /\ calls = 1

\* The score route j of the upstream reply gets under the request.
UpstreamScore(j) == BuildOption(j, data.routes[j], req).score

\* C7: the routes of a response are exactly the first min(k, n) upstream
\* routes; a route at a position above k never appears.
C7_FirstKOnly ==
  Ok => /\ Len(resp.body.routes) = Min(req.k, Len(data.routes))
        /\ { resp.body.routes[i].geojson : i \in 1 .. Len(resp.body.routes) }
             = { data.routes[j].geometry : j \in 1 .. Min(req.k, Len(data.routes)) }

\* An upstream route beyond position k scores below every returned route
\* and is absent from the response.
C7_Witness ==
  /\ Ok
  /\ \E j \in req.k + 1 .. Len(data.routes) :
       /\ data.routes[j].keys = RouteKeys
       /\ \A i \in 1 .. Len(resp.body.routes) :
            /\ Lt(UpstreamScore(j), resp.body.routes[i].score)
            /\ resp.body.routes[i].geojson # data.routes[j].geometry

\* C8: the identifiers of a response are pairwise distinct and exactly
\* r1..r<returned>, the option r<i> carries the data of the i-th upstream
\* route, and options of equal score keep their upstream order.
C8_IdsAndStability ==
  Ok => LET routes == resp.body.routes
            n      == Len(routes)
        IN  /\ \A a, b \in 1 .. n : a # b => routes[a].id # routes[b].id
            /\ { routes[a].id : a \in 1 .. n } = { <<"r", i>> : i \in 1 .. resp.body.returned }
            /\ \A a \in 1 .. n :
                 LET rt == data.routes[IdIndex(routes[a])]
                 IN  /\ routes[a].geojson = rt.geometry
                     /\ routes[a].distance_km = Round(ToKm(rt.distance), 3)
                     /\ routes[a].duration_min = Round(ToMin(rt.duration), 1)
            /\ \A a, b \in 1 .. n :
                 (a < b /\ routes[a].score = routes[b].score)
                    => IdIndex(routes[a]) < IdIndex(routes[b])

\* Two options tie and a lower-scored later route has moved ahead of them.
C8_Witness ==
  /\ Ok
  /\ Len(resp.body.routes) = 3
  /\ IdIndex(resp.body.routes[1]) = 2
  /\ resp.body.routes[2].score = resp.body.routes[3].score
  /\ IdIndex(resp.body.routes[2]) = 1
  /\ IdIndex(resp.body.routes[3]) = 3

\* C9: the score of each option is the unrounded metric the preference
\* selects: seconds/60 for FASTEST, metres/1000 for SHORT_DISTANCE,
\* km * rate / 100 for LOW_FUEL, liters * price for CHEAPEST.
C9_ScoreIsUnroundedMetric ==
  Ok => \A a \in 1 .. Len(resp.body.routes) :
          LET o      == resp.body.routes[a]
              rt     == data.routes[IdIndex(o)]
              liters == Div100(MulRate(ToKm(rt.distance), req.vehicle.fuel_l_per_100km))
          IN  o.score = CASE req.preference = "FASTEST"        -> ToMin(rt.duration)
                          [] req.preference = "SHORT_DISTANCE" -> ToKm(rt.distance)
                          [] req.preference = "LOW_FUEL"       -> liters
                          [] req.preference = "CHEAPEST"       ->
                               MulInt(liters, req.fuel_price_per_liter)

\* Two routes show the same rounded distance, differ unrounded, and the
\* shorter one, later upstream, comes first.
C9_Witness ==
  /\ Ok
  /\ req.preference = "SHORT_DISTANCE"
  /\ \E a, b \in 1 .. Len(resp.body.routes) :
       /\ a < b
       /\ resp.body.routes[a].distance_km = resp.body.routes[b].distance_km
       /\ Lt(resp.body.routes[a].score, resp.body.routes[b].score)
       /\ IdIndex(resp.body.routes[a]) > IdIndex(resp.body.routes[b])

\* The identifier order of the response to the same reply under pref, price.
IdsUnder(pref, price) == Ids(Handle(ReqWith(pref, price), data).body.routes)

\* Under CHEAPEST at price 0 every score and cost is 0 and the order is
\* the upstream order.
ZeroPriceKeepsUpstreamOrder ==
  (Ok /\ req.preference = "CHEAPEST" /\ req.fuel_price_per_liter = 0) =>
     \A i \in 1 .. Len(resp.body.routes) :
        /\ resp.body.routes[i].score = F(0)
        /\ resp.body.routes[i].fuel_cost_cop = F(0)
        /\ resp.body.routes[i].id = <<"r", i>>

\* C10 as stated: for the same reply, k and vehicle the identifier order is
\* the same under SHORT_DISTANCE, LOW_FUEL and CHEAPEST with price > 0;
\* under CHEAPEST with price 0 everything is 0 and the order is upstream's.
C10_SameOrderAsStated ==
  /\ (Ok /\ req.preference = "SHORT_DISTANCE") =>
        /\ IdsUnder("LOW_FUEL", req.fuel_price_per_liter) = Ids(resp.body.routes)
        /\ \A p \in PositivePrices : IdsUnder("CHEAPEST", p) = Ids(resp.body.routes)
  /\ ZeroPriceKeepsUpstreamOrder

\* Routes of different distance get different scores under pref, price.
NoCollision(pref, price) ==
  LET routes == Handle(ReqWith(pref, price), data).body.routes
  IN  \A a, b \in 1 .. Len(routes) :
        data.routes[IdIndex(routes[a])].distance # data.routes[IdIndex(routes[b])].distance
           => routes[a].score # routes[b].score

\* C10 amended: the identifier order is the same under SHORT_DISTANCE,
\* LOW_FUEL and CHEAPEST with price > 0 whenever routes of different
\* distance get different liters and cost scores (the double product can
\* round different distances to one score); under CHEAPEST with price 0
\* everything is 0 and the order is upstream's.
C10_SameOrderUnlessScoresCollide ==
  /\ (Ok /\ req.preference = "SHORT_DISTANCE") =>
        /\ NoCollision("LOW_FUEL", req.fuel_price_per_liter)
             => IdsUnder("LOW_FUEL", req.fuel_price_per_liter) = Ids(resp.body.routes)
        /\ \A p \in PositivePrices :
             NoCollision("CHEAPEST", p) => IdsUnder("CHEAPEST", p) = Ids(resp.body.routes)
  /\ ZeroPriceKeepsUpstreamOrder

\* A LOW_FUEL response at rate 7.5 that is not in upstream order and has
\* the identifier order of SHORT_DISTANCE and of CHEAPEST.
C10_Witness ==
  /\ Ok
  /\ req.preference = "LOW_FUEL"
  /\ ~req.vehicle.fuel_l_per_100km.sub
  /\ Len(resp.body.routes) >= 2
  /\ IdIndex(resp.body.routes[1]) # 1
  /\ Ids(resp.body.routes) = IdsUnder("SHORT_DISTANCE", req.fuel_price_per_liter)
  /\ \A p \in PositivePrices : Ids(resp.body.routes) = IdsUnder("CHEAPEST", p)

====
